---- MODULE Spec2Model ----
(***************************************************************************)
(* PDEG -> Home Assistant bridge (src/main.py).                            *)
(*                                                                         *)
(* Text is a sequence of Unicode code points, a raw frame a sequence of    *)
(* byte values 0..255.  An optional value (Optional[int]) is the empty     *)
(* sequence (None) or a one-element sequence.  A function that raises is   *)
(* modelled by a result record with ok = FALSE and the exception's type.   *)
(***************************************************************************)
EXTENDS Integers, Sequences, FiniteSets, TLC

VARIABLES
    alive,      \* the process is running (os._exit has not been called)
    killer,     \* <<c>>: the handler of connection c called os._exit; <<>>: none
    pc,         \* pc[c]: position of the handler task of connection c
    raw,        \* raw[c]: the frame returned by reader.readline()
    kind,       \* kind[c]: what the peer of c sent (environment's description)
    line,       \* line[c]: clean_command(raw)
    cmd,        \* cmd[c]: result of parse_command(line)
    svc,        \* svc[c]: result of build_service_call(...)
    calls,      \* calls[c]: number of requests.post issued for c
    hub,        \* hub[c]: outcome of the outbound call
    err,        \* err[c]: exception raised in the handler of c
    closed,     \* closed[c]: writer.close() was called by the handler of c
    sent,       \* sent[c]: number of bytes written back to the peer of c
    h_fn,       \* function under evaluation (pure-function specifications)
    h_src,      \* the structured description of its argument
    h_in,       \* its argument
    h_out,      \* its result
    h_pc        \* "call" before the evaluation, "ret" after

connVars == <<alive, killer, pc, raw, kind, line, cmd, svc, calls, hub, err, closed, sent>>
harnessVars == <<h_fn, h_src, h_in, h_out, h_pc>>
vars == <<alive, killer, pc, raw, kind, line, cmd, svc, calls, hub, err, closed, sent,
          h_fn, h_src, h_in, h_out, h_pc>>

-----------------------------------------------------------------------------
(* Text helpers *)

None == <<>>
Some(v) == <<v>>

\* The printable ASCII characters, code points 32..126, in order; the grave
\* accent (96) cannot be written in a string and its place holds a space.
Ascii == " !\"#$%&'()*+,-./0123456789:;<=>?@ABCDEFGHIJKLMNOPQRSTUVWXYZ[\\]^_ abcdefghijklmnopqrstuvwxyz{|}~"

Ord(ch) == CHOOSE i \in (32..126) \ {96} : SubSeq(Ascii, i - 31, i - 31) = ch

\* A string literal of the source as a sequence of code points.
S(str) == [i \in 1..Len(str) |-> Ord(SubSeq(str, i, i))]

\* str.isspace() for one code point (Unicode White_Space plus 0x1C..0x1F).
IsSpace(c) ==
    \/ c \in 9..13
    \/ c \in 28..32
    \/ c \in {133, 160, 5760, 8232, 8233, 8239, 8287, 12288}
    \/ c \in 8192..8202

\* str.lower() for one code point of Basic Latin / Latin-1.
LowerChar(c) ==
    IF c \in 65..90 THEN c + 32
    ELSE IF c \in 192..222 /\ c # 215 THEN c + 32
    ELSE c

Lower(s) == [i \in 1..Len(s) |-> LowerChar(s[i])]

RECURSIVE LStrip(_)
LStrip(s) == IF s # <<>> /\ IsSpace(Head(s)) THEN LStrip(Tail(s)) ELSE s

RECURSIVE RStrip(_)
RStrip(s) ==
    IF s # <<>> /\ IsSpace(s[Len(s)]) THEN RStrip(SubSeq(s, 1, Len(s) - 1)) ELSE s

\* str.strip()
Strip(s) == RStrip(LStrip(s))

\* Length of the longest prefix of s without whitespace.
RECURSIVE TokenLen(_)
TokenLen(s) == IF s = <<>> \/ IsSpace(Head(s)) THEN 0 ELSE 1 + TokenLen(Tail(s))

\* re.split(r"\s+", s): the pieces of s between maximal runs of whitespace.
\* An empty s gives one empty piece; leading or trailing whitespace gives an
\* empty first or last piece.
RECURSIVE ReSplitWs(_)
ReSplitWs(s) ==
    LET n == TokenLen(s)
        rest == SubSeq(s, n + 1, Len(s))
    IN IF rest = <<>> THEN <<SubSeq(s, 1, n)>>
       ELSE <<SubSeq(s, 1, n)>> \o ReSplitWs(LStrip(rest))

EndsWith(s, suffix) ==
    /\ Len(s) >= Len(suffix)
    /\ SubSeq(s, Len(s) - Len(suffix) + 1, Len(s)) = suffix

IsDigit(c) == c \in 48..57

\* The digits and underscores of an int() literal: non-empty, digits only,
\* with single underscores allowed between two digits.
DigitsOk(s) ==
    /\ s # <<>>
    /\ \A i \in 1..Len(s) :
         \/ IsDigit(s[i])
         \/ /\ s[i] = 95
            /\ i > 1 /\ i < Len(s)
            /\ IsDigit(s[i - 1]) /\ IsDigit(s[i + 1])

RECURSIVE DigitsValue(_)
DigitsValue(s) ==
    IF s = <<>> THEN 0
    ELSE LET c == s[Len(s)]
             front == SubSeq(s, 1, Len(s) - 1)
         IN IF c = 95 THEN DigitsValue(front)
            ELSE 10 * DigitsValue(front) + (c - 48)

\* int(s), base 10, for text of Basic Latin / Latin-1 code points (whose only
\* decimal digits are 0-9): surrounding whitespace stripped, an optional
\* sign, then digits.  ok = FALSE: int raises ValueError.
PyInt(s) ==
    LET t == Strip(s)
        signed == t # <<>> /\ t[1] \in {43, 45}
        body == IF signed THEN Tail(t) ELSE t
    IN IF DigitsOk(body)
       THEN [ok |-> TRUE,
             val |-> IF signed /\ t[1] = 45 THEN 0 - DigitsValue(body)
                     ELSE DigitsValue(body)]
       ELSE [ok |-> FALSE, val |-> 0]

\* Rounding with ties away from zero, which round() does not do.
PyRoundHalfUp(num, den) == (2 * num + den) \div (2 * den)

\* round(num / den) for num >= 0, den > 0: round() of a float, nearest integer
\* with ties to the even one.  For num = pct * 255, den = 100 a tie k + 0.5 is
\* exact in binary floating point and every other quotient is at least 0.01
\* away from a tie, so the float computation agrees with the exact one.
PyRound(num, den) ==
    LET q == num \div den
        r == num % den
    IN IF 2 * r < den THEN q
       ELSE IF 2 * r > den THEN q + 1
       ELSE IF q % 2 = 0 THEN q ELSE q + 1

-----------------------------------------------------------------------------
(* clean_command *)

IsCont(b) == b \in 128..191

\* The second byte a UTF-8 lead byte admits.
SecondOk(lead, b) ==
    IF lead = 224 THEN b \in 160..191
    ELSE IF lead = 237 THEN b \in 128..159
    ELSE IF lead = 240 THEN b \in 144..191
    ELSE IF lead = 244 THEN b \in 128..143
    ELSE IsCont(b)

\* Number of bytes of the sequence a lead byte announces (0: not a lead byte).
SeqLen(lead) ==
    IF lead < 128 THEN 1
    ELSE IF lead \in 194..223 THEN 2
    ELSE IF lead \in 224..239 THEN 3
    ELSE IF lead \in 240..244 THEN 4
    ELSE 0

\* Number of bytes, from position i of b, that form a well-formed prefix of
\* the sequence announced by b[i] (at most n).
GoodPrefix(b, i, n) ==
    IF n >= 2 /\ i + 1 <= Len(b) /\ SecondOk(b[i], b[i + 1])
    THEN IF n >= 3 /\ i + 2 <= Len(b) /\ IsCont(b[i + 2])
         THEN IF n >= 4 /\ i + 3 <= Len(b) /\ IsCont(b[i + 3]) THEN 4 ELSE 3
         ELSE 2
    ELSE 1

CodePoint(b, i, n) ==
    IF n = 1 THEN b[i]
    ELSE IF n = 2 THEN (b[i] - 192) * 64 + (b[i + 1] - 128)
    ELSE IF n = 3 THEN (b[i] - 224) * 4096 + (b[i + 1] - 128) * 64 + (b[i + 2] - 128)
    ELSE (b[i] - 240) * 262144 + (b[i + 1] - 128) * 4096
         + (b[i + 2] - 128) * 64 + (b[i + 3] - 128)

\* bytes.decode("utf-8", errors="ignore") from position i: a well-formed
\* sequence gives its code point, an ill-formed one is dropped (its maximal
\* well-formed prefix, or the single offending byte) and decoding resumes.
RECURSIVE DecodeFrom(_, _)
DecodeFrom(b, i) ==
    IF i > Len(b) THEN <<>>
    ELSE LET n == SeqLen(b[i])
             g == IF n = 0 THEN 1 ELSE GoodPrefix(b, i, n)
         IN IF n > 0 /\ g = n
            THEN <<CodePoint(b, i, n)>> \o DecodeFrom(b, i + n)
            ELSE DecodeFrom(b, i + g)

Utf8DecodeIgnore(b) == DecodeFrom(b, 1)

\* The test of main.py line 80 with the upper-case range off by one.
IsAsciiLetterOffByOne(b) == (65 <= b /\ b <= 91) \/ (97 <= b /\ b <= 122)

IsAsciiLetter(b) == (65 <= b /\ b <= 90) \/ (97 <= b /\ b <= 122)

\* The loop of lines 78-82: index of the first ASCII letter from position i,
\* None when there is none.
RECURSIVE FirstLetterFrom(_, _)
FirstLetterFrom(b, i) ==
    IF i > Len(b) THEN None
    ELSE IF IsAsciiLetter(b[i]) THEN Some(i)
    ELSE FirstLetterFrom(b, i + 1)

clean_command(b) ==
    LET start == FirstLetterFrom(b, 1)
    IN IF start = None THEN <<>>
       ELSE Strip(Utf8DecodeIgnore(SubSeq(b, start[1], Len(b))))

-----------------------------------------------------------------------------
(* parse_command *)

ValueError(msg) ==
    [ok |-> FALSE, exc |-> "ValueError", msg |-> msg,
     entity_id |-> <<>>, action |-> <<>>, brightness |-> None]

\* Lines 47-64: the brightness token of an "on" command.
parse_brightness(raw_bri) ==
    IF EndsWith(raw_bri, S("%"))
    THEN LET pct == PyInt(SubSeq(raw_bri, 1, Len(raw_bri) - 1))
         IN IF ~pct.ok THEN [ok |-> FALSE, val |-> 0, msg |-> "percentage not an integer"]
            ELSE IF ~(0 <= pct.val /\ pct.val <= 100)
                 THEN [ok |-> FALSE, val |-> 0, msg |-> "percentage out of range"]
            ELSE [ok |-> TRUE, val |-> PyRound(pct.val * 255, 100), msg |-> ""]
    ELSE LET bri == PyInt(raw_bri)
         IN IF ~bri.ok THEN [ok |-> FALSE, val |-> 0, msg |-> "brightness not an integer"]
            ELSE IF ~(0 <= bri.val /\ bri.val <= 255)
                 THEN [ok |-> FALSE, val |-> 0, msg |-> "brightness out of range"]
            ELSE [ok |-> TRUE, val |-> bri.val, msg |-> ""]

\* The condition of line 45 without its test of the action.
has_brightness_any_action(parts, action) == Len(parts) >= 3

\* Line 45.
has_brightness(parts, action) == Len(parts) >= 3 /\ action = S("on")

\* Line 41 comparing the token as received.
action_ok_case_sensitive(parts) == parts[2] \in {S("on"), S("off")}

\* Lines 39-41.
action_ok(parts) == Lower(parts[2]) \in {S("on"), S("off")}

parse_command(ln) ==
    IF ln = <<>> THEN ValueError("Empty command")
    ELSE LET parts == ReSplitWs(Strip(ln))
         IN IF Len(parts) < 2 THEN ValueError("Expected: <entity_id> <on|off> [brightness]")
            ELSE LET entity_id == Lower(parts[1])
                     action == Lower(parts[2])
                 IN IF ~action_ok(parts) THEN ValueError("Action must be ON or OFF")
                    ELSE IF has_brightness(parts, action)
                    THEN LET bri == parse_brightness(Lower(Strip(parts[3])))
                         IN IF ~bri.ok THEN ValueError(bri.msg)
                            ELSE [ok |-> TRUE, exc |-> "", msg |-> "",
                                  entity_id |-> entity_id, action |-> action,
                                  brightness |-> Some(bri.val)]
                    ELSE [ok |-> TRUE, exc |-> "", msg |-> "",
                          entity_id |-> entity_id, action |-> action,
                          brightness |-> None]

-----------------------------------------------------------------------------
(* build_service_call *)

Contains(s, c) == \E i \in 1..Len(s) : s[i] = c

\* entity_id.split(".", 1)[0]: the text before the first "."
BeforeFirstDot(s) ==
    LET i == CHOOSE k \in 1..Len(s) : s[k] = 46 /\ \A j \in 1..(k - 1) : s[j] # 46
    IN SubSeq(s, 1, i - 1)

domain_from_entity(entity_id) ==
    IF ~Contains(entity_id, 46)
    THEN [ok |-> FALSE, exc |-> "ValueError", dom |-> <<>>]
    ELSE [ok |-> TRUE, exc |-> "", dom |-> BeforeFirstDot(entity_id)]

\* Lines 105, 110, 114.
service_name(action) == IF action = S("on") THEN S("turn_on") ELSE S("turn_off")

\* Lines 103-114 with the brightness added for every domain.
service_data_any_domain(dom, entity_id, action, brightness) ==
    IF action = S("on") /\ brightness # None
    THEN [entity_id |-> entity_id, brightness |-> brightness[1]]
    ELSE [entity_id |-> entity_id]

\* Lines 101, 106-107: the payload.
service_data(dom, entity_id, action, brightness) ==
    IF dom = S("light") /\ action = S("on") /\ brightness # None
    THEN [entity_id |-> entity_id, brightness |-> brightness[1]]
    ELSE [entity_id |-> entity_id]

\* Lines 103-113: the service domain.
service_domain(dom) ==
    IF dom = S("light") THEN S("light")
    ELSE IF dom = S("switch") THEN S("switch")
    ELSE S("homeassistant")

build_service_call(entity_id, action, brightness) ==
    LET d == domain_from_entity(entity_id)
    IN IF ~d.ok
       THEN [ok |-> FALSE, exc |-> d.exc, domain |-> <<>>, service |-> <<>>,
             data |-> [entity_id |-> <<>>]]
       ELSE [ok |-> TRUE, exc |-> "",
             domain |-> service_domain(d.dom),
             service |-> service_name(action),
             data |-> service_data(d.dom, entity_id, action, brightness)]

-----------------------------------------------------------------------------
(* handle, main: one handler task per accepted connection *)

NumConns == 2
Conns == 1..NumConns

\* A local of the handler that has not been assigned yet.
NoCmd ==
    [ok |-> FALSE, exc |-> "", msg |-> "",
     entity_id |-> <<>>, action |-> <<>>, brightness |-> None]
NoSvc ==
    [ok |-> FALSE, exc |-> "", domain |-> <<>>, service |-> <<>>,
     data |-> [entity_id |-> <<>>]]

\* The binary header PDEG prepends (the comment of bytes_hex).
Header == <<24, 39, 1, 3>>

\* What a peer may send before the line ends or the peer closes.
PeerFrames ==
    { [kind |-> "empty",       bytes |-> <<>>],
      [kind |-> "noletter",    bytes |-> Header \o <<10>>],
      [kind |-> "badparse",    bytes |-> Header \o S("onlyone") \o <<10>>],
      [kind |-> "badparse",    bytes |-> S("light.x maybe") \o <<10>>],
      [kind |-> "badparse",    bytes |-> Header \o S("light.b on 300") \o <<10>>],
      [kind |-> "nodomain",    bytes |-> Header \o S("noseparator on") \o <<10>>],
      [kind |-> "emptyprefix", bytes |-> S(".bulb1 on") \o <<10>>],
      [kind |-> "good",        bytes |-> Header \o S("light.bulb1 on 100%") \o <<10>>],
      [kind |-> "good",        bytes |-> S("Switch.Fan1  OFF 200") \o <<13, 10>>] }

\* What requests.post does: a status below 400, a status of 400 or more
\* (RuntimeError, line 127), or a transport error or timeout (an exception
\* of requests).
HubOutcomes == {"ok", "rejected", "transport"}

InitConn ==
    /\ alive = TRUE
    /\ killer = <<>>
    /\ pc = [c \in Conns |-> "idle"]
    /\ raw = [c \in Conns |-> <<>>]
    /\ kind = [c \in Conns |-> "none"]
    /\ line = [c \in Conns |-> <<>>]
    /\ cmd = [c \in Conns |-> NoCmd]
    /\ svc = [c \in Conns |-> NoSvc]
    /\ calls = [c \in Conns |-> 0]
    /\ hub = [c \in Conns |-> "none"]
    /\ err = [c \in Conns |-> "none"]
    /\ closed = [c \in Conns |-> FALSE]
    /\ sent = [c \in Conns |-> 0]

HarnessOff ==
    /\ h_fn = "none"
    /\ h_src = <<>>
    /\ h_in = <<>>
    /\ h_out = <<>>
    /\ h_pc = "off"

Init == InitConn /\ HarnessOff

\* Lines 151-154 without the return.
map_failed_ignored(s) == FALSE

\* Lines 151-154: build_service_call raised ValueError and the handler returns.
map_failed(s) == ~s.ok

\* Lines 138-157, run by the event loop without suspension once readline
\* has returned: the locals assigned, the exception caught (if any) and where
\* the handler goes next.
handle_frame(bytes) ==
    LET ln == clean_command(bytes)
        c == parse_command(ln)
        s == build_service_call(c.entity_id, c.action, c.brightness)
    IN IF ~c.ok
       THEN [line |-> ln, cmd |-> c, svc |-> NoSvc, err |-> "ParseError", to |-> "Closing"]
       ELSE IF map_failed(s)
       THEN [line |-> ln, cmd |-> c, svc |-> NoSvc, err |-> "DomainError", to |-> "Closing"]
       ELSE [line |-> ln, cmd |-> c, svc |-> s, err |-> "none", to |-> "Invoking"]

\* main, lines 174-178: the server accepts a connection and starts handle,
\* which runs to its await of reader.readline().
Accept(c) ==
    /\ alive
    /\ pc[c] = "idle"
    /\ pc' = [pc EXCEPT ![c] = "Reading"]
    /\ UNCHANGED <<alive, killer, raw, kind, line, cmd, svc, calls, hub, err, closed, sent>>

\* Lines 160-163: except Exception: log and os._exit(1).  The process ends at
\* once; the finally clause of lines 164-169 is not run.
Fatal(c, e) ==
    /\ err' = [err EXCEPT ![c] = e]
    /\ pc' = [pc EXCEPT ![c] = "ClosedFatal"]
    /\ alive' = FALSE
    /\ killer' = <<c>>

\* Lines 137-157 and, on return, 164-167: readline returns a frame; the
\* handler extracts, parses and maps it, then either returns (finally:
\* writer.close(), await wait_closed) or hands call_ha_service to a thread.
Receive(c) ==
    /\ alive
    /\ pc[c] = "Reading"
    /\ \E f \in PeerFrames : \E h \in {handle_frame(f.bytes)} :
            /\ raw' = [raw EXCEPT ![c] = f.bytes]
            /\ kind' = [kind EXCEPT ![c] = f.kind]
            /\ line' = [line EXCEPT ![c] = h.line]
            /\ cmd' = [cmd EXCEPT ![c] = h.cmd]
            /\ svc' = [svc EXCEPT ![c] = h.svc]
            /\ err' = [err EXCEPT ![c] = h.err]
            /\ pc' = [pc EXCEPT ![c] = h.to]
            /\ closed' = [closed EXCEPT ![c] = (h.to = "Closing")]
    /\ UNCHANGED <<alive, killer, calls, hub, sent>>

\* Line 137 raising (connection reset, line over the reader's limit): an
\* exception none of the inner handlers catches.
ReadFails(c) ==
    /\ alive
    /\ pc[c] = "Reading"
    /\ Fatal(c, "Unanticipated")
    /\ UNCHANGED <<raw, kind, line, cmd, svc, calls, hub, closed, sent>>

\* call_ha_service, lines 120-127, in the worker thread of asyncio.to_thread:
\* one requests.post and its outcome.
HubCall(c) ==
    /\ alive
    /\ pc[c] = "Invoking"
    /\ calls' = [calls EXCEPT ![c] = @ + 1]
    /\ \E o \in HubOutcomes : hub' = [hub EXCEPT ![c] = o]
    /\ pc' = [pc EXCEPT ![c] = "Returned"]
    /\ UNCHANGED <<alive, killer, raw, kind, line, cmd, svc, err, closed, sent>>

\* Lines 157-167: the await of to_thread completes.  A call that returned
\* falls through to the finally clause; a call that raised is caught by
\* except Exception (line 160).
Resume(c) ==
    /\ alive
    /\ pc[c] = "Returned"
    /\ IF hub[c] = "ok"
       THEN /\ pc' = [pc EXCEPT ![c] = "Closing"]
            /\ closed' = [closed EXCEPT ![c] = TRUE]
            /\ UNCHANGED <<alive, killer, err>>
       ELSE /\ Fatal(c, "ServiceError")
            /\ UNCHANGED closed
    /\ UNCHANGED <<raw, kind, line, cmd, svc, calls, hub, sent>>

\* Lines 167-169: wait_closed returns (or raises, which is swallowed) and the
\* handler task ends.
Closed(c) ==
    /\ alive
    /\ pc[c] = "Closing"
    /\ pc' = [pc EXCEPT ![c] = "ClosedClean"]
    /\ UNCHANGED <<alive, killer, raw, kind, line, cmd, svc, calls, hub, err, closed, sent>>

Next ==
    \/ \E c \in Conns : Accept(c) /\ UNCHANGED harnessVars
    \/ \E c \in Conns : Receive(c) /\ UNCHANGED harnessVars
    \/ \E c \in Conns : ReadFails(c) /\ UNCHANGED harnessVars
    \/ \E c \in Conns : HubCall(c) /\ UNCHANGED harnessVars
    \/ \E c \in Conns : Resume(c) /\ UNCHANGED harnessVars
    \/ \E c \in Conns : Closed(c) /\ UNCHANGED harnessVars

Spec == Init /\ [][Next]_vars

-----------------------------------------------------------------------------
(* Claims about the connection handler, checked under Spec *)

HubFailed(c) == hub[c] \in {"rejected", "transport"}

\* C1: when the outbound hub call fails (status >= 400, transport error or
\* timeout) the handler only logs it and ends in ClosedClean: it does not
\* take the fatal path and does not terminate the process.
C1_HubFailureClosesClean ==
    \A c \in Conns :
        HubFailed(c) => pc[c] # "ClosedFatal" /\ killer # <<c>>

\* C2: the handler closes its writer on every exit path, and on the fatal
\* path it does so before the process terminates: the process has never
\* exited through a handler that did not close its connection.
C2_ReleasedBeforeExit ==
    \A c \in Conns :
        (~alive /\ killer = <<c>>) => closed[c]

\* C3: a recoverable error (ParseError, DomainError, ServiceError) in one
\* connection never stops the others; only an unanticipated error ends the
\* process.
C3_OnlyUnanticipatedEndsProcess ==
    (\A c \in Conns : err[c] # "Unanticipated") => alive

NoCallKinds == {"empty", "noletter", "badparse", "nodomain"}

\* C4: a connection makes exactly one outbound call when its frame extracts,
\* parses and maps, and none otherwise: an empty frame, a frame without a
\* letter, an unparsable line or a line without domain separator leads to no
\* call, a cleanly closed connection whose handler does not end the process,
\* and nothing written back.  The call is made only after parsing and
\* mapping succeeded and is never repeated.
C4_OneCallIffMapped ==
    \A c \in Conns :
        /\ calls[c] <= 1
        /\ sent[c] = 0
        /\ calls[c] = 1 => cmd[c].ok /\ svc[c].ok
        /\ kind[c] \in NoCallKinds =>
              /\ calls[c] = 0 /\ hub[c] = "none"
              /\ pc[c] \in {"Closing", "ClosedClean"}
              /\ closed[c]
              /\ killer # <<c>>
        /\ kind[c] = "good" =>
              /\ cmd[c].ok /\ svc[c].ok
              /\ calls[c] = (IF pc[c] = "Invoking" THEN 0 ELSE 1)

C4_Witness ==
    \E c, d \in Conns :
        /\ kind[c] = "nodomain" /\ pc[c] = "ClosedClean" /\ calls[c] = 0
        /\ kind[d] = "good" /\ pc[d] = "ClosedFatal" /\ hub[d] = "rejected"
        /\ calls[d] = 1

-----------------------------------------------------------------------------
(* Evaluation of one pure function on one argument.  The argument is drawn *)
(* from a bounded set and described by h_src; the handler tasks stay idle. *)

Return(fn, out) ==
    /\ h_pc = "call"
    /\ h_fn = fn
    /\ h_out' = out
    /\ h_pc' = "ret"
    /\ UNCHANGED <<h_fn, h_src, h_in>>
    /\ UNCHANGED connVars

(* --- clean_command --- *)

MaxFrameLen == 4

\* Bytes of a frame: line feed, a control byte of the header, space, '@',
\* 'A', '[', 'z', and the two bytes of U+00E9 in UTF-8.
FrameBytes == {10, 24, 32, 64, 65, 91, 122, 195, 169}

\* The ASCII letters, as the bytes that encode them.
LetterBytes ==
    {Ord(SubSeq(Ascii, i, i)) : i \in (34..59) \cup (66..91)}

RECURSIVE SeqsUpTo(_, _)
SeqsUpTo(A, n) ==
    IF n = 0 THEN {<<>>}
    ELSE LET shorter == SeqsUpTo(A, n - 1)
         IN shorter \cup {<<a>> \o s : a \in A, s \in {x \in shorter : Len(x) = n - 1}}

\* A frame as the peer builds it: a header without any letter, then either
\* nothing or a payload that starts with a letter.
FrameSource(s) ==
    LET n == Cardinality({k \in 1..Len(s) : \A i \in 1..k : s[i] \notin LetterBytes})
    IN [header |-> SubSeq(s, 1, n), payload |-> SubSeq(s, n + 1, Len(s))]

FrameSources == {FrameSource(s) : s \in SeqsUpTo(FrameBytes, MaxFrameLen)}

InitClean ==
    /\ InitConn
    /\ h_fn = "clean_command"
    /\ h_src \in FrameSources
    /\ h_in = h_src.header \o h_src.payload
    /\ h_out = <<>>
    /\ h_pc = "call"

CallClean == Return("clean_command", clean_command(h_in))

NextClean == CallClean

SpecClean == InitClean /\ [][NextClean]_vars

\* C10: clean_command returns the empty string for a frame without an ASCII
\* letter and otherwise the frame from its first ASCII letter on, decoded and
\* stripped; nothing of the header before that letter is returned, a frame
\* that starts with a letter is returned whole, and a non-empty result
\* starts with an ASCII letter.
C10_CleanCommand ==
    h_pc = "ret" =>
        /\ h_src.payload = <<>> => h_out = <<>>
        /\ h_src.payload # <<>> => h_out = Strip(Utf8DecodeIgnore(h_src.payload))
        /\ h_src.header = <<>> => h_out = Strip(Utf8DecodeIgnore(h_in))
        /\ h_out # <<>> => h_out[1] \in LetterBytes

C10_Witness ==
    /\ h_pc = "ret"
    /\ h_src.header = <<24>>
    /\ h_src.payload = <<65, 195, 10>>
    /\ h_out = <<65>>

(* --- parse_command --- *)

MaxRaw == 300
MaxPct == 150

\* Decimal digits of n >= 0.
RECURSIVE Digits(_)
Digits(n) == IF n < 10 THEN <<48 + n>> ELSE Digits(n \div 10) \o <<48 + (n % 10)>>

\* str(n)
Dec(n) == IF n < 0 THEN <<45>> \o Digits(0 - n) ELSE Digits(n)

\* Entity tokens as sent, with their lower-case form.
EntityTokens ==
    { [s |-> "light.b", low |-> "light.b"],
      [s |-> "Switch.FAN_1", low |-> "switch.fan_1"],
      [s |-> "NoSep", low |-> "nosep"] }

\* Action tokens as sent, with the action they spell without regard to case
\* ("bad": neither on nor off).
ActionTokens ==
    { [s |-> "on", k |-> "on"], [s |-> "ON", k |-> "on"], [s |-> "oN", k |-> "on"],
      [s |-> "off", k |-> "off"], [s |-> "Off", k |-> "off"],
      [s |-> "maybe", k |-> "bad"], [s |-> "o", k |-> "bad"], [s |-> "onn", k |-> "bad"] }

\* Third tokens: a decimal integer ("raw"), a decimal integer followed by %
\* ("pct"), an integer spelled with a sign, leading zeros or an underscore
\* ("spelled", v its value), and text that is no integer ("txt").
BrightnessTokens ==
    {[k |-> "raw", v |-> n, s |-> ""] : n \in (0 - 2)..MaxRaw}
    \cup {[k |-> "pct", v |-> n, s |-> ""] : n \in (0 - 2)..MaxPct}
    \cup { [k |-> "spelled", v |-> 5, s |-> "+5"],
           [k |-> "spelled", v |-> 7, s |-> "007"],
           [k |-> "spelled", v |-> 10, s |-> "1_0"],
           [k |-> "spelled", v |-> 1000, s |-> "1_000"] }
    \cup {[k |-> "txt", v |-> 0, s |-> x] :
            x \in {"abc", "%", "5%%", "1.5", "12a", "5_", "0x10", "-", "x%", "1.5%"}}

BrightnessText(b) ==
    IF b.k = "raw" THEN Dec(b.v)
    ELSE IF b.k = "pct" THEN Dec(b.v) \o S("%")
    ELSE S(b.s)

\* Whitespace between tokens: one space, or a run of space, tab, space.
Separators == {<<32>>, <<32, 9, 32>>}

\* Lines of n tokens: entity, action, brightness, one more token.
ParseSources ==
    {[n |-> n, ent |-> e, act |-> a, bri |-> [k |-> "raw", v |-> 200, s |-> ""],
      sep |-> sp, pad |-> pd] :
        n \in 0..2, e \in EntityTokens, a \in ActionTokens,
        sp \in Separators, pd \in {<<>>, <<32>>}}
    \cup
    {[n |-> n, ent |-> e, act |-> a, bri |-> b, sep |-> sp, pad |-> <<>>] :
        n \in 3..4, e \in {x \in EntityTokens : x.s = "Switch.FAN_1"},
        a \in ActionTokens, b \in BrightnessTokens, sp \in Separators}

RECURSIVE Join(_, _)
Join(toks, sep) ==
    IF toks = <<>> THEN <<>>
    ELSE IF Len(toks) = 1 THEN toks[1]
    ELSE toks[1] \o sep \o Join(Tail(toks), sep)

ParseLine(src) ==
    LET toks == <<S(src.ent.s), S(src.act.s), BrightnessText(src.bri), S("999%")>>
    IN src.pad \o Join(SubSeq(toks, 1, src.n), src.sep) \o src.pad

InitParse ==
    /\ InitConn
    /\ h_fn = "parse_command"
    /\ h_src \in ParseSources
    /\ h_in = ParseLine(h_src)
    /\ h_out = <<>>
    /\ h_pc = "call"

CallParse == Return("parse_command", parse_command(h_in))

NextParse == CallParse

SpecParse == InitParse /\ [][NextParse]_vars

\* The brightness a third token stands for, by the grammar of the docstring:
\* an integer 0..255, or an integer 0..100 followed by %.
ValidBrightness(b) ==
    \/ b.k \in {"raw", "spelled"} /\ b.v \in 0..255
    \/ b.k = "pct" /\ b.v \in 0..100

\* n * 255 / 100 rounded to the nearest integer, a tie to the even one.
NearestTiesEven(n) ==
    CHOOSE b \in 0..255 :
        LET d == 100 * b - 255 * n
        IN \/ (0 - 50) < d /\ d < 50
           \/ d \in {0 - 50, 50} /\ b % 2 = 0

ParseFails(src) ==
    \/ src.n < 2
    \/ src.act.k = "bad"
    \/ src.act.k = "on" /\ src.n >= 3 /\ ~ValidBrightness(src.bri)

\* C5: parse_command fails (ValueError) exactly when the line is empty, has
\* fewer than two tokens, its second token is not on/off without regard to
\* case, or the action is on and a third token is no valid brightness.
\* Otherwise it returns token 0 and token 1 lower-cased; the whitespace
\* between tokens and a fourth token change nothing.
C5_ParseFailsExactlyWhen ==
    h_pc = "ret" =>
        /\ ~h_out.ok <=> ParseFails(h_src)
        /\ ~h_out.ok => h_out.exc = "ValueError"
        /\ h_out.ok => /\ h_out.entity_id = S(h_src.ent.low)
                       /\ h_out.action = S(h_src.act.k)

C5_Witness ==
    /\ h_pc = "ret"
    /\ h_src.n = 4
    /\ h_src.sep = <<32, 9, 32>>
    /\ h_src.ent.s = "Switch.FAN_1"
    /\ h_src.act.s = "ON"
    /\ h_src.bri = [k |-> "pct", v |-> 50, s |-> ""]
    /\ h_out.ok
    /\ h_out.entity_id = S("switch.fan_1")
    /\ h_out.action = S("on")

\* C6: brightness is None whenever the action is off: a third token given
\* with off is ignored without error whatever it is.  It is None for a
\* two-token line too, and not None only for on with a third token.
C6_BrightnessNoneWhenOff ==
    h_pc = "ret" =>
        /\ (h_src.act.k = "off" /\ h_src.n >= 2) =>
              h_out.ok /\ h_out.brightness = None
        /\ (h_out.ok /\ h_out.action = S("off")) => h_out.brightness = None
        /\ (h_out.ok /\ h_src.n = 2) => h_out.brightness = None
        /\ h_out.ok =>
              (h_out.brightness # None <=> (h_out.action = S("on") /\ h_src.n >= 3))

C6_Witness ==
    /\ h_pc = "ret"
    /\ h_src.act.k = "off"
    /\ h_src.n = 3
    /\ h_src.bri = [k |-> "pct", v |-> 150, s |-> ""]
    /\ h_out.ok
    /\ h_out.brightness = None

\* The brightness parse_brightness gives for n%.
Scale(n) == parse_brightness(Dec(n) \o S("%")).val

ScaleExamples ==
    /\ Scale(0) = 0
    /\ Scale(100) = 255
    /\ Scale(50) = 128
    /\ Scale(30) = 76

ScaleMonotone == \A n \in 0..99 : Scale(n) <= Scale(n + 1)

\* C7: for on with a third token, N% with N in 0..100 gives N*255/100 rounded
\* to the nearest integer, ties to even; a plain integer in 0..255 gives
\* itself; a percentage outside 0..100, an integer outside 0..255 or a token
\* that is no integer fails.  So a brightness lies in 0..255 and the scaling
\* is non-decreasing.
C7_BrightnessValue ==
    /\ ScaleExamples
    /\ ScaleMonotone
    /\ h_pc = "ret" =>
        /\ (h_out.ok /\ h_out.brightness # None) => h_out.brightness[1] \in 0..255
        /\ (h_src.act.k = "on" /\ h_src.n >= 3) =>
              IF ~ValidBrightness(h_src.bri) THEN ~h_out.ok
              ELSE /\ h_out.ok
                   /\ h_out.brightness =
                        Some(IF h_src.bri.k = "pct" THEN NearestTiesEven(h_src.bri.v)
                             ELSE h_src.bri.v)

C7_Witness ==
    /\ h_pc = "ret"
    /\ h_src.act.k = "on"
    /\ h_src.n = 3
    /\ h_src.bri = [k |-> "pct", v |-> 30, s |-> ""]
    /\ h_out.ok
    /\ h_out.brightness = Some(76)

(* --- build_service_call --- *)

\* Entity references: a prefix, then (dot) a "." and the rest.
EntitySources ==
    {[prefix |-> pf, dot |-> TRUE, rest |-> r] :
        pf \in {"light", "switch", "fan", "lights", "ligh", "switc", "homeassistant", ""},
        r \in {"bulb1", "", "x.light", "switch"}}
    \cup
    {[prefix |-> pf, dot |-> FALSE, rest |-> ""] :
        pf \in {"light", "switch", "noseparator", ""}}

EntityText(e) == IF e.dot THEN S(e.prefix) \o S(".") \o S(e.rest) ELSE S(e.prefix)

\* Commands as parse_command returns them.
MapSources ==
    {[ent |-> e, action |-> a, brightness |-> b] :
        e \in EntitySources, a \in {"on", "off"},
        b \in {None, Some(0), Some(1), Some(200), Some(255)}}

InitMap ==
    /\ InitConn
    /\ h_fn = "build_service_call"
    /\ h_src \in MapSources
    /\ h_in = <<EntityText(h_src.ent), S(h_src.action), h_src.brightness>>
    /\ h_out = <<>>
    /\ h_pc = "call"

CallMap == Return("build_service_call", build_service_call(h_in[1], h_in[2], h_in[3]))

NextMap == CallMap

SpecMap == InitMap /\ [][NextMap]_vars

\* C8: for a Command with a domain separator build_service_call returns the
\* service domain light or switch for those prefixes and homeassistant for
\* any other, the service turn_on for on and turn_off for off, and a payload
\* with entity_id the full reference and with brightness exactly when the
\* domain is light, the action on and brightness not None; no other key.
C8_ServiceCall ==
    (h_pc = "ret" /\ h_src.ent.dot) =>
        /\ h_out.ok
        /\ h_out.domain =
              S(IF h_src.ent.prefix = "light" THEN "light"
                ELSE IF h_src.ent.prefix = "switch" THEN "switch"
                ELSE "homeassistant")
        /\ h_out.service = S(IF h_src.action = "on" THEN "turn_on" ELSE "turn_off")
        /\ h_out.data.entity_id = EntityText(h_src.ent)
        /\ DOMAIN h_out.data \subseteq {"entity_id", "brightness"}
        /\ "brightness" \in DOMAIN h_out.data <=>
              /\ h_src.ent.prefix = "light"
              /\ h_src.action = "on"
              /\ h_src.brightness # None
        /\ "brightness" \in DOMAIN h_out.data =>
              h_out.data.brightness = h_src.brightness[1]

C8_Witness ==
    /\ h_pc = "ret"
    /\ h_src.ent = [prefix |-> "light", dot |-> TRUE, rest |-> "bulb1"]
    /\ h_src.action = "on"
    /\ h_src.brightness = Some(200)
    /\ h_out.ok
    /\ h_out.domain = S("light")
    /\ h_out.service = S("turn_on")
    /\ h_out.data = [entity_id |-> S("light.bulb1"), brightness |-> 200]

\* C9: build_service_call fails with the domain error for every reference
\* that has no "." or whose prefix before the "." is empty; only a reference
\* with a non-empty prefix followed by "." is mapped.
C9_DomainErrorUnlessPrefixed ==
    h_pc = "ret" =>
        (h_out.ok <=> (h_src.ent.dot /\ h_src.ent.prefix # ""))

====
